---- MODULE Spec2Model ----
(***************************************************************************)
(* Model of src/src/main.rs: the replay of scripted write batches against *)
(* a key-value table (kv.pairs), checked after every batch against an     *)
(* in-memory BTreeMap.                                                    *)
(*                                                                         *)
(* Byte strings (Vec<u8>) are sequences of integers in 0..255.  Maps      *)
(* (BTreeMap<Vec<u8>,Vec<u8>>, the table kv.pairs) are functions whose    *)
(* domain is the set of keys present.                                     *)
(***************************************************************************)
EXTENDS Integers, Sequences, FiniteSets, TLC

(***************************************************************************)
(* Program constant and bounds of the model.                              *)
(***************************************************************************)
U8_MAX == 255

\* longest prefix / probe key of the get_interval specification
MaxPrefixLen == 2
\* most operations in one replayed batch
MaxOps == 2
\* most batches in a replayed script
MaxBatches == 2
\* most operations in a batch handed to update_via_batch on its own
MaxCallOps == 3
\* most entries of the map handed to update_via_batch on its own
MaxCallEntries == 1
\* most lines in a script file
MaxLines == 4
\* largest operation count a batch header of a script declares
MaxDeclared == 2

\* byte values the prefixes and probe keys of get_interval are drawn from
\* (both ends of u8 and their neighbours)
ByteSample == {0, 1, 254, 255}

\* keys the operations are drawn from: a one-byte key and a longer key
\* beginning with it, once below 0xFF (finite upper bound, the longer key
\* ending in 0xFF) and once all 0xFF (no upper bound)
SampleKeys == {<<1>>, <<1, 255>>, <<255>>, <<255, 255>>}

RECURSIVE SeqsUpTo(_, _)
SeqsUpTo(S, n) ==
    IF n = 0 THEN {<<>>}
    ELSE LET r == SeqsUpTo(S, n - 1)
         IN  r \cup {Append(s, b) : s \in {t \in r : Len(t) = n - 1}, b \in S}

(***************************************************************************)
(* Option<Vec<u8>> and Bound<Vec<u8>>.                                    *)
(***************************************************************************)
None == [some |-> FALSE, val |-> <<>>]
Some(v) == [some |-> TRUE, val |-> v]

Unbounded == [kind |-> "Unbounded", key |-> <<>>]
Included(k) == [kind |-> "Included", key |-> k]
Excluded(k) == [kind |-> "Excluded", key |-> k]

(***************************************************************************)
(* Ord for Vec<u8>: lexicographic on unsigned bytes, a proper prefix is   *)
(* smaller.  The same order is the clustering order of the blob column k. *)
(***************************************************************************)
LexLess(a, b) ==
    LET m == IF Len(a) < Len(b) THEN Len(a) ELSE Len(b)
    IN  \E i \in 1..(m + 1) :
            /\ \A j \in 1..(i - 1) : a[j] = b[j]
            /\ \/ i > Len(a) /\ i <= Len(b)
               \/ i <= m /\ a[i] < b[i]

LexLeq(a, b) == a = b \/ LexLess(a, b)

(***************************************************************************)
(* get_upper_bound_option: scan from the last byte to the first; at the   *)
(* first byte below u8::MAX, truncate after it and add one to it.         *)
(***************************************************************************)
RECURSIVE ScanUpperBound(_, _)
ScanUpperBound(key_prefix, i) ==
    IF i = 0 THEN None
    ELSE IF key_prefix[i] < U8_MAX
         THEN Some([SubSeq(key_prefix, 1, i) EXCEPT ![i] = (key_prefix[i] + 1) % 256])
         ELSE ScanUpperBound(key_prefix, i - 1)

\* variant: the byte is incremented but the bytes after it are kept
RECURSIVE ScanKeepTail(_, _)
ScanKeepTail(key_prefix, i) ==
    IF i = 0 THEN None
    ELSE IF key_prefix[i] < U8_MAX
         THEN Some([key_prefix EXCEPT ![i] = (key_prefix[i] + 1) % 256])
         ELSE ScanKeepTail(key_prefix, i - 1)

get_upper_bound_option_keep_tail(key_prefix) == ScanKeepTail(key_prefix, Len(key_prefix))

get_upper_bound_option(key_prefix) == ScanUpperBound(key_prefix, Len(key_prefix))

\* variant: only the last byte is looked at
get_upper_bound_last_byte(key_prefix) ==
    LET n == Len(key_prefix)
    IN  IF n > 0 /\ key_prefix[n] < U8_MAX
        THEN Excluded([key_prefix EXCEPT ![n] = key_prefix[n] + 1])
        ELSE Unbounded

get_upper_bound(key_prefix) ==
    LET o == get_upper_bound_option(key_prefix)
    IN  IF o.some THEN Excluded(o.val) ELSE Unbounded

\* variant: the prefix itself is left out of the interval
get_interval_open(key_prefix) == <<Excluded(key_prefix), get_upper_bound(key_prefix)>>

get_interval(key_prefix) == <<Included(key_prefix), get_upper_bound(key_prefix)>>

\* membership of a key in a (Bound, Bound) pair, as BTreeMap::range and
\* BTreeSet::range decide it
AboveLower(k, lo) ==
    CASE lo.kind = "Included" -> LexLeq(lo.key, k)
      [] lo.kind = "Excluded" -> LexLess(lo.key, k)
      [] OTHER -> TRUE

BelowUpper(k, hi) ==
    CASE hi.kind = "Included" -> LexLeq(k, hi.key)
      [] hi.kind = "Excluded" -> LexLess(k, hi.key)
      [] OTHER -> TRUE

\* variant: the upper bound of the pair is not looked at
InRangeLowerOnly(k, interval) == AboveLower(k, interval[1])

InRange(k, interval) == AboveLower(k, interval[1]) /\ BelowUpper(k, interval[2])

(***************************************************************************)
(* WriteOperation and Batch.  A batch is the sequence of its operations.  *)
(***************************************************************************)
Put(k, v) == [type |-> "Put", key |-> k, value |-> v]
Delete(k) == [type |-> "Delete", key |-> k, value |-> <<>>]
DeletePrefix(p) == [type |-> "DeletePrefix", key |-> p, value |-> <<>>]

\* BTreeMap::insert and BTreeMap::remove
MapInsert(m, k, v) == [x \in DOMAIN m \cup {k} |-> IF x = k THEN v ELSE m[x]]
MapRemove(m, k) == [x \in DOMAIN m \ {k} |-> m[x]]
MapRemoveAll(m, ks) == [x \in DOMAIN m \ ks |-> m[x]]

(***************************************************************************)
(* update_via_batch: the operations of the batch, in order, on the map.   *)
(* DeletePrefix collects the keys of the map as it is at that point that  *)
(* lie in get_interval(key_prefix), then removes each of them.            *)
(***************************************************************************)
\* variant: Delete of a key that is absent inserts it (a toggle)
apply_operation_toggle(m, op) ==
    CASE op.type = "Put" -> MapInsert(m, op.key, op.value)
      [] op.type = "Delete" ->
            IF op.key \in DOMAIN m THEN MapRemove(m, op.key)
            ELSE MapInsert(m, op.key, <<>>)
      [] op.type = "DeletePrefix" ->
            LET key_list == {k \in DOMAIN m : InRange(k, get_interval(op.key))}
            IN  MapRemoveAll(m, key_list)

\* variant: DeletePrefix stops after the first key of the range
apply_operation_first_only(m, op) ==
    CASE op.type = "Put" -> MapInsert(m, op.key, op.value)
      [] op.type = "Delete" -> MapRemove(m, op.key)
      [] op.type = "DeletePrefix" ->
            LET key_list == {k \in DOMAIN m : InRange(k, get_interval(op.key))}
            IN  IF key_list = {} THEN m
                ELSE MapRemove(m, CHOOSE k \in key_list :
                                      \A o \in key_list : LexLeq(k, o))

apply_operation(m, op) ==
    CASE op.type = "Put" -> MapInsert(m, op.key, op.value)
      [] op.type = "Delete" -> MapRemove(m, op.key)
      [] op.type = "DeletePrefix" ->
            LET key_list == {k \in DOMAIN m : InRange(k, get_interval(op.key))}
            IN  MapRemoveAll(m, key_list)

RECURSIVE FoldOperations(_, _, _)
FoldOperations(m, ops, i) ==
    IF i > Len(ops) THEN m
    ELSE FoldOperations(apply_operation(m, ops[i]), ops, i + 1)

\* variant: every DeletePrefix is evaluated on the map as it was before the batch
RECURSIVE FoldOnSnapshot(_, _, _, _)
FoldOnSnapshot(m0, m, ops, i) ==
    IF i > Len(ops) THEN m
    ELSE LET op == ops[i]
             next == IF op.type = "DeletePrefix"
                     THEN MapRemoveAll(m, {k \in DOMAIN m0 : InRange(k, get_interval(op.key))})
                     ELSE apply_operation(m, op)
         IN  FoldOnSnapshot(m0, next, ops, i + 1)

update_via_batch_snapshot(m, ops) == FoldOnSnapshot(m, m, ops, 1)

\* variant: the operations are applied last to first
RECURSIVE FoldReversed(_, _, _)
FoldReversed(m, ops, i) ==
    IF i = 0 THEN m
    ELSE FoldReversed(apply_operation(m, ops[i]), ops, i - 1)

update_via_batch_reversed(m, ops) == FoldReversed(m, ops, Len(ops))

update_via_batch(m, ops) == FoldOperations(m, ops, 1)

(***************************************************************************)
(* The table kv.pairs, partition dummy = 0: a map from k to v.  The four  *)
(* statements and two queries main issues, by the text of their CQL.      *)
(***************************************************************************)
Statement(q, vals) == [query |-> q, values |-> vals]

execute_statement(rows, st) ==
    CASE st.query = "INSERT k v" ->
            MapInsert(rows, st.values[1], st.values[2])
      [] st.query = "DELETE k = ?" ->
            MapRemove(rows, st.values[1])
      [] st.query = "DELETE k >= ?" ->
            MapRemoveAll(rows, {k \in DOMAIN rows : LexLeq(st.values[1], k)})
      [] st.query = "DELETE k >= ? AND k < ?" ->
            MapRemoveAll(rows, {k \in DOMAIN rows :
                                   LexLeq(st.values[1], k) /\ LexLess(k, st.values[2])})

\* Session::batch on a store that applies the statements of a batch as one
\* write, strictly in the order given (the contract asked of the Store)
RECURSIVE session_batch(_, _, _)
session_batch(rows, statements, i) ==
    IF i > Len(statements) THEN rows
    ELSE session_batch(execute_statement(rows, statements[i]), statements, i + 1)

\* keys of the rows a SELECT returns, in clustering order
RECURSIVE InKeyOrder(_)
InKeyOrder(ks) ==
    IF ks = {} THEN <<>>
    ELSE LET least == CHOOSE k \in ks : \A o \in ks : LexLeq(k, o)
         IN  <<least>> \o InKeyOrder(ks \ {least})

session_query(rows, st) ==
    LET hit == CASE st.query = "SELECT k >= ?" ->
                       {k \in DOMAIN rows : LexLeq(st.values[1], k)}
                 [] st.query = "SELECT k >= ? AND k < ?" ->
                       {k \in DOMAIN rows :
                           LexLeq(st.values[1], k) /\ LexLess(k, st.values[2])}
        ord == InKeyOrder(hit)
    IN  [i \in 1..Len(ord) |-> <<ord[i], rows[ord[i]]>>]

(***************************************************************************)
(* find_key_values_by_prefix: the rows of the prefix range, each key      *)
(* with its first len(key_prefix) bytes cut off.                          *)
(***************************************************************************)
find_key_values_by_prefix(rows, key_prefix) ==
    LET len == Len(key_prefix)
        o == get_upper_bound_option(key_prefix)
        res == IF o.some
               THEN session_query(rows, Statement("SELECT k >= ? AND k < ?",
                                                  <<key_prefix, o.val>>))
               ELSE session_query(rows, Statement("SELECT k >= ?", <<key_prefix>>))
    IN  [i \in 1..Len(res) |->
            <<SubSeq(res[i][1], len + 1, Len(res[i][1])), res[i][2]>>]

(***************************************************************************)
(* write_batch_internal: one statement per operation, then one batch.     *)
(***************************************************************************)
\* variant: the range delete never carries its upper bound
statement_of_no_upper(ent) ==
    CASE ent.type = "Put" -> Statement("INSERT k v", <<ent.key, ent.value>>)
      [] ent.type = "Delete" -> Statement("DELETE k = ?", <<ent.key>>)
      [] ent.type = "DeletePrefix" -> Statement("DELETE k >= ?", <<ent.key>>)

\* variant: a range delete without upper bound carries no lower bound either
statement_of_unbounded_all(ent) ==
    CASE ent.type = "Put" -> Statement("INSERT k v", <<ent.key, ent.value>>)
      [] ent.type = "Delete" -> Statement("DELETE k = ?", <<ent.key>>)
      [] ent.type = "DeletePrefix" ->
            LET o == get_upper_bound_option(ent.key)
            IN  IF o.some
                THEN Statement("DELETE k >= ? AND k < ?", <<ent.key, o.val>>)
                ELSE Statement("DELETE k >= ?", << <<>> >>)

statement_of(ent) ==
    CASE ent.type = "Put" -> Statement("INSERT k v", <<ent.key, ent.value>>)
      [] ent.type = "Delete" -> Statement("DELETE k = ?", <<ent.key>>)
      [] ent.type = "DeletePrefix" ->
            LET o == get_upper_bound_option(ent.key)
            IN  IF o.some
                THEN Statement("DELETE k >= ? AND k < ?", <<ent.key, o.val>>)
                ELSE Statement("DELETE k >= ?", <<ent.key>>)

write_batch_internal(rows, operations) ==
    session_batch(rows, [i \in 1..Len(operations) |-> statement_of(operations[i])], 1)

(***************************************************************************)
(* get_first_entry, update_firsts.                                        *)
(***************************************************************************)
get_first_entry(operation) == operation.key[1]

\* variant: only the first operation of the batch is recorded
update_firsts_first_only(firsts, ops) ==
    IF ops = <<>> THEN firsts ELSE firsts \cup {get_first_entry(ops[1])}

\* variant: only the last operation of the batch is recorded
update_firsts_last_only(firsts, ops) ==
    IF ops = <<>> THEN firsts ELSE firsts \cup {get_first_entry(ops[Len(ops)])}

\* variant: the Put operations are not recorded
update_firsts_no_puts(firsts, ops) ==
    firsts \cup {get_first_entry(ops[i]) : i \in {n \in 1..Len(ops) : ops[n].type # "Put"}}

update_firsts(firsts, ops) == firsts \cup {get_first_entry(ops[i]) : i \in 1..Len(ops)}

(***************************************************************************)
(* detect_collision: the sizes it prints for the batch.                   *)
(***************************************************************************)
\* variant: the Delete and DeletePrefix operations are not collected
detect_collision_puts_only(ops) ==
    LET key_puts == {ops[i].key : i \in {n \in 1..Len(ops) : ops[n].type = "Put"}}
    IN  [printed |-> TRUE,
         key_puts |-> Cardinality(key_puts),
         key_deletes |-> 0,
         key_prefix_deletes |-> 0,
         intersection |-> 0,
         key_lists |-> <<>>]

detect_collision(ops) ==
    LET key_puts == {ops[i].key : i \in {n \in 1..Len(ops) : ops[n].type = "Put"}}
        key_deletes == {ops[i].key : i \in {n \in 1..Len(ops) : ops[n].type = "Delete"}}
        key_prefix_deletes ==
            {ops[i].key : i \in {n \in 1..Len(ops) : ops[n].type = "DeletePrefix"}}
        in_order == InKeyOrder(key_prefix_deletes)
    IN  [printed |-> TRUE,
         key_puts |-> Cardinality(key_puts),
         key_deletes |-> Cardinality(key_deletes),
         key_prefix_deletes |-> Cardinality(key_prefix_deletes),
         intersection |-> Cardinality(key_puts \cap key_deletes),
         key_lists |->
            [i \in 1..Len(in_order) |->
                [key_prefix |-> Len(in_order[i]),
                 key_list |-> Cardinality({k \in key_puts :
                                              InRange(k, get_interval(in_order[i]))})]]]

(***************************************************************************)
(* State.                                                                  *)
(***************************************************************************)
VARIABLES
    pc,             \* position of main (or of the call under test)
    pos,            \* main: number of batches verified so far
    batch,          \* the batch being processed: its operations
    kv_state,       \* the BTreeMap main keeps in step with the table
    first_bytes,    \* the BTreeSet<u8> of first bytes seen so far
    store,          \* content of the table kv.pairs (partition dummy = 0)
    kv_state_read,  \* the snapshot main assembles from the scans
    scan_todo,      \* first bytes the scan loop of main has still to read
    diag,           \* what detect_collision printed
    fault,          \* the row written into the table behind main's back
    kv_before,      \* argument of the update_via_batch call under test
    iv_prefix,      \* argument of the get_interval call under test
    iv_key,         \* a key probed against the returned interval
    iv_result,      \* the interval returned
    n_writes,       \* batch writes main has sent to the table
    n_scans,        \* range scans main has sent in this turn of the loop
    store_failed,   \* a request to the table has returned an error
    script_lines,   \* the lines of the script file
    parsed          \* what the decoding of the script gave

vars == <<pc, pos, batch, kv_state, first_bytes, store, kv_state_read,
          scan_todo, diag, fault, kv_before, iv_prefix, iv_key, iv_result,
          n_writes, n_scans, store_failed, script_lines, parsed>>

io_vars == <<n_writes, n_scans, store_failed>>
parse_vars == <<script_lines, parsed>>
NotParsed == [done |-> FALSE, ok |-> FALSE, batches |-> <<>>]

\* the variables a specification does not use, at rest
IoAtRest == n_writes = 0 /\ n_scans = 0 /\ store_failed = FALSE
ParseAtRest == script_lines = <<>> /\ parsed = NotParsed

EmptyMap == [k \in {} |-> <<>>]
NoDiag == [printed |-> FALSE, key_puts |-> 0, key_deletes |-> 0,
           key_prefix_deletes |-> 0, intersection |-> 0, key_lists |-> <<>>]
NoFault == [injected |-> FALSE, key |-> <<>>, at |-> 0]
NoInterval == <<Unbounded, Unbounded>>

replay_vars == <<pos, batch, kv_state, first_bytes, store, kv_state_read,
                 scan_todo, diag, fault, kv_before, io_vars, parse_vars>>

(***************************************************************************)
(* get_interval on its own: every prefix and probe key up to MaxPrefixLen *)
(* over ByteSample, then one call.                                        *)
(***************************************************************************)
PrefixInputs == SeqsUpTo(ByteSample, MaxPrefixLen)

InitInterval ==
    /\ pc = "iv_call"
    /\ iv_prefix \in PrefixInputs
    /\ iv_key \in PrefixInputs
    /\ iv_result = NoInterval
    /\ pos = 0
    /\ batch = <<>>
    /\ kv_state = EmptyMap
    /\ first_bytes = {}
    /\ store = EmptyMap
    /\ kv_state_read = EmptyMap
    /\ scan_todo = {}
    /\ diag = NoDiag
    /\ fault = NoFault
    /\ kv_before = EmptyMap
    /\ IoAtRest
    /\ ParseAtRest

CallGetInterval ==
    /\ pc = "iv_call"
    /\ iv_result' = get_interval(iv_prefix)
    /\ pc' = "iv_ret"
    /\ UNCHANGED <<iv_prefix, iv_key>>
    /\ UNCHANGED replay_vars

NextInterval == CallGetInterval

SpecInterval == InitInterval /\ [][NextInterval]_vars

(***************************************************************************)
(* update_via_batch on its own: a map of at most MaxCallEntries entries   *)
(* and a batch of at most MaxCallOps operations over SampleKeys, the      *)
(* empty prefix included for DeletePrefix, then one call.                 *)
(***************************************************************************)
CallKeys == SampleKeys
CallPrefixes == SampleKeys \cup {<<>>}
CallValues == {<<1>>, <<2>>}
OldValue == <<9>>

CallOperations ==
    {Put(k, v) : k \in CallKeys, v \in CallValues}
        \cup {Delete(k) : k \in CallKeys}
        \cup {DeletePrefix(k) : k \in CallPrefixes}

RECURSIVE BatchesUpTo(_, _)
BatchesUpTo(O, n) ==
    IF n = 0 THEN {<<>>}
    ELSE LET r == BatchesUpTo(O, n - 1)
         IN  r \cup {Append(s, o) : s \in {t \in r : Len(t) = n - 1}, o \in O}

CallMaps ==
    {[k \in D |-> OldValue] :
        D \in {E \in SUBSET CallKeys : Cardinality(E) <= MaxCallEntries}}

InitBatch ==
    /\ pc = "uvb_call"
    /\ kv_before \in CallMaps
    /\ kv_state = kv_before
    /\ batch \in BatchesUpTo(CallOperations, MaxCallOps)
    /\ pos = 0
    /\ first_bytes = {}
    /\ store = EmptyMap
    /\ kv_state_read = EmptyMap
    /\ scan_todo = {}
    /\ diag = NoDiag
    /\ fault = NoFault
    /\ iv_prefix = <<>>
    /\ iv_key = <<>>
    /\ iv_result = NoInterval
    /\ IoAtRest
    /\ ParseAtRest

CallUpdateViaBatch ==
    /\ pc = "uvb_call"
    /\ kv_state' = update_via_batch(kv_state, batch)
    /\ pc' = "uvb_ret"
    /\ UNCHANGED <<pos, batch, first_bytes, store, kv_state_read, scan_todo,
                   diag, fault, kv_before, iv_prefix, iv_key, iv_result,
                   io_vars, parse_vars>>

NextBatch == CallUpdateViaBatch

SpecBatch == InitBatch /\ [][NextBatch]_vars

(***************************************************************************)
(* main: the replay loop.  The script is read before the loop; the model  *)
(* draws its next batch when the loop reaches it.  read_vec accepts no    *)
(* empty byte list and read_operation gives every Put the value [0], so   *)
(* the batches of a script have non-empty keys and prefixes and that one  *)
(* value.  The table starts empty (create_test_session drops it).         *)
(***************************************************************************)
ScriptValue == <<0>>

ScriptKeys == SampleKeys

ScriptOperations ==
    {Put(k, ScriptValue) : k \in ScriptKeys}
        \cup {Delete(k) : k \in ScriptKeys}
        \cup {DeletePrefix(k) : k \in ScriptKeys}

ScriptBatches == BatchesUpTo(ScriptOperations, MaxOps)

Init ==
    /\ pc = "loop"
    /\ pos = 0
    /\ batch = <<>>
    /\ kv_state = EmptyMap
    /\ first_bytes = {}
    /\ store = EmptyMap
    /\ kv_state_read = EmptyMap
    /\ scan_todo = {}
    /\ diag = NoDiag
    /\ fault = NoFault
    /\ kv_before = EmptyMap
    /\ iv_prefix = <<>>
    /\ iv_key = <<>>
    /\ iv_result = NoInterval
    /\ IoAtRest
    /\ ParseAtRest

call_vars == <<kv_before, iv_prefix, iv_key, iv_result, parse_vars>>

\* index of the first operation whose key or prefix is empty, 0 if none:
\* there get_first_entry indexes key[0] out of bounds and main panics
FirstEmptyKey(ops) ==
    LET E == {i \in 1..Len(ops) : ops[i].key = <<>>}
    IN  IF E = {} THEN 0 ELSE CHOOSE i \in E : \A n \in E : i <= n

\* loop head on a batch drawn from B: update_firsts, then update_via_batch
BeginBatchFrom(B) ==
    /\ pc = "loop"
    /\ \E b \in B :
          LET e == FirstEmptyKey(b)
          IN  /\ batch' = b
              /\ IF e = 0
                 THEN /\ first_bytes' = update_firsts(first_bytes, b)
                      /\ kv_state' = update_via_batch(kv_state, b)
                      /\ pc' = "write"
                 ELSE /\ first_bytes' = update_firsts(first_bytes, SubSeq(b, 1, e - 1))
                      /\ kv_state' = kv_state
                      /\ pc' = "index_panic"
    /\ UNCHANGED <<pos, store, kv_state_read, scan_todo, diag, fault>>
    /\ UNCHANGED io_vars
    /\ UNCHANGED call_vars

\* loop head: the next batch of the script
BeginBatch == pos < MaxBatches /\ BeginBatchFrom(ScriptBatches)

\* write_batch_internal(...).await, then the fresh kv_state_read
WriteBatch ==
    /\ pc = "write"
    /\ store' = write_batch_internal(store, batch)
    /\ kv_state_read' = EmptyMap
    /\ scan_todo' = first_bytes
    /\ pc' = "scan"
    /\ n_writes' = n_writes + 1
    /\ n_scans' = 0
    /\ UNCHANGED <<pos, batch, kv_state, first_bytes, diag, fault, store_failed>>
    /\ UNCHANGED call_vars

\* the inner loop of the scan: big_key = [first_byte] ++ key
RECURSIVE insert_key_values(_, _, _, _)
insert_key_values(m, first_byte, key_values, i) ==
    IF i > Len(key_values) THEN m
    ELSE LET big_key == <<first_byte>> \o key_values[i][1]
         IN  insert_key_values(MapInsert(m, big_key, key_values[i][2]),
                               first_byte, key_values, i + 1)

\* one turn of the scan loop: the next first byte in BTreeSet order
ScanBucket ==
    /\ pc = "scan"
    /\ scan_todo # {}
    /\ LET first_byte == CHOOSE b \in scan_todo : \A o \in scan_todo : b <= o
           key_values == find_key_values_by_prefix(store, <<first_byte>>)
       IN  /\ kv_state_read' = insert_key_values(kv_state_read, first_byte, key_values, 1)
           /\ scan_todo' = scan_todo \ {first_byte}
    /\ n_scans' = n_scans + 1
    /\ UNCHANGED <<pc, pos, batch, kv_state, first_bytes, store, diag, fault,
                   n_writes, store_failed>>
    /\ UNCHANGED call_vars

\* variant: a mismatch is reported but the loop goes on
CompareAndGoOn ==
    /\ pc = "scan"
    /\ scan_todo = {}
    /\ diag' = IF kv_state_read # kv_state THEN detect_collision(batch) ELSE diag
    /\ pos' = pos + 1
    /\ pc' = "loop"
    /\ batch' = <<>>
    /\ kv_state_read' = EmptyMap
    /\ n_scans' = 0
    /\ UNCHANGED <<kv_state, first_bytes, store, scan_todo, fault, n_writes, store_failed>>
    /\ UNCHANGED call_vars

\* variant: the comparison does not wait for the scans still to do
CompareEarly ==
    /\ pc = "scan"
    /\ IF kv_state_read # kv_state
       THEN /\ diag' = detect_collision(batch)
            /\ pc' = "panic"
            /\ UNCHANGED <<pos, batch, kv_state_read, n_scans, scan_todo>>
       ELSE /\ diag' = diag
            /\ pc' = "loop"
            /\ pos' = pos + 1
            /\ batch' = <<>>
            /\ kv_state_read' = EmptyMap
            /\ n_scans' = 0
            /\ scan_todo' = {}
    /\ UNCHANGED <<kv_state, first_bytes, store, fault, n_writes, store_failed>>
    /\ UNCHANGED call_vars

\* variant: detect_collision is run on every batch, before the comparison
CompareAfterDiagnostics ==
    /\ pc = "scan"
    /\ scan_todo = {}
    /\ diag' = detect_collision(batch)
    /\ IF kv_state_read # kv_state
       THEN /\ pc' = "panic"
            /\ UNCHANGED <<pos, batch, kv_state_read, n_scans>>
       ELSE /\ pc' = "loop"
            /\ pos' = pos + 1
            /\ batch' = <<>>
            /\ kv_state_read' = EmptyMap
            /\ n_scans' = 0
    /\ UNCHANGED <<kv_state, first_bytes, store, scan_todo, fault, n_writes, store_failed>>
    /\ UNCHANGED call_vars

\* the comparison that ends the turn of the batch loop; batch and
\* kv_state_read are locals of the turn and end with it
Compare ==
    /\ pc = "scan"
    /\ scan_todo = {}
    /\ IF kv_state_read # kv_state
       THEN /\ diag' = detect_collision(batch)
            /\ pc' = "panic"
            /\ UNCHANGED <<pos, batch, kv_state_read, n_scans>>
       ELSE /\ diag' = diag
            /\ pc' = "loop"
            /\ pos' = pos + 1
            /\ batch' = <<>>
            /\ kv_state_read' = EmptyMap
            /\ n_scans' = 0
    /\ UNCHANGED <<kv_state, first_bytes, store, scan_todo, fault, n_writes, store_failed>>
    /\ UNCHANGED call_vars

\* the script has no further batch
Finish ==
    /\ pc = "loop"
    /\ pc' = "done"
    /\ UNCHANGED <<pos, batch, kv_state, first_bytes, store, kv_state_read,
                   scan_todo, diag, fault>>
    /\ UNCHANGED io_vars
    /\ UNCHANGED call_vars

Next == BeginBatch \/ WriteBatch \/ ScanBucket \/ Compare \/ Finish

Spec == Init /\ [][Next]_vars

(***************************************************************************)
(* The replay with one row written into the table from outside, between   *)
(* two batches (or before the first): a key the table does not hold.      *)
(***************************************************************************)
InjectFault ==
    /\ pc = "loop"
    /\ ~fault.injected
    /\ \E k \in ScriptKeys \ DOMAIN store :
          /\ store' = MapInsert(store, k, ScriptValue)
          /\ fault' = [injected |-> TRUE, key |-> k, at |-> pos]
    /\ UNCHANGED <<pc, pos, batch, kv_state, first_bytes, kv_state_read, scan_todo, diag>>
    /\ UNCHANGED io_vars
    /\ UNCHANGED call_vars

NextFault == Next \/ InjectFault

SpecFault == Init /\ [][NextFault]_vars

(***************************************************************************)
(* The replay with requests to the table that fail.  session.batch and    *)
(* session.query return a Result and main unwraps it: an Err is a panic.  *)
(* A batch that failed may or may not have reached the table.             *)
(***************************************************************************)
\* variant: the failed batch is sent again
WriteFailsAndRetries ==
    /\ pc = "write"
    /\ ~store_failed
    /\ store' = store
    /\ n_writes' = n_writes + 1
    /\ store_failed' = TRUE
    /\ pc' = "write"
    /\ UNCHANGED <<pos, batch, kv_state, first_bytes, kv_state_read, scan_todo,
                   diag, fault, n_scans>>
    /\ UNCHANGED call_vars

\* session.batch(...).await.unwrap() on an Err
WriteFails ==
    /\ pc = "write"
    /\ store' \in {store, write_batch_internal(store, batch)}
    /\ n_writes' = n_writes + 1
    /\ store_failed' = TRUE
    /\ pc' = "store_error"
    /\ UNCHANGED <<pos, batch, kv_state, first_bytes, kv_state_read, scan_todo,
                   diag, fault, n_scans>>
    /\ UNCHANGED call_vars

\* session.query(...).await.unwrap() on an Err
ScanFails ==
    /\ pc = "scan"
    /\ scan_todo # {}
    /\ n_scans' = n_scans + 1
    /\ store_failed' = TRUE
    /\ pc' = "store_error"
    /\ UNCHANGED <<pos, batch, kv_state, first_bytes, store, kv_state_read,
                   scan_todo, diag, fault, n_writes>>
    /\ UNCHANGED call_vars

NextFail == Next \/ WriteFails \/ ScanFails

SpecFail == Init /\ [][NextFail]_vars

(***************************************************************************)
(* main, from the script file on.  A line is a batch header             *)
(* "write_batch n_operation=<n>", an operation line "<j>: <operation>",   *)
(* or anything else.  The decoding loop looks at every line: at a header  *)
(* it reads the n lines after it with read_operation, which panics unless *)
(* the line is an operation line whose index is its place in the batch;   *)
(* indexing past the last line panics too.  A line that does not start a  *)
(* batch is passed over.                                                  *)
(***************************************************************************)
HeaderLine(n) == [kind |-> "header", n |-> n, op |-> Delete(<<1>>)]
OperationLine(j, op) == [kind |-> "operation", n |-> j, op |-> op]
OtherLine == [kind |-> "other", n |-> 0, op |-> Delete(<<1>>)]

ParsePanic == [done |-> TRUE, ok |-> FALSE, batches |-> <<>>]
Parsed(bs) == [done |-> TRUE, ok |-> TRUE, batches |-> bs]

\* read_operation(i_operation, line) returns (does not panic)
read_operation_ok(i_operation, line) ==
    line.kind = "operation" /\ line.n = i_operation

\* the inner loop at the header lines_a[i_line]: the batch, or a panic
read_batch(lines, i_line) ==
    LET n_operation == lines[i_line].n
    IN  IF /\ i_line + n_operation <= Len(lines)
           /\ \A i \in 1..n_operation : read_operation_ok(i - 1, lines[i_line + i])
        THEN Some([i \in 1..n_operation |-> lines[i_line + i].op])
        ELSE None

RECURSIVE decode_from(_, _, _)
decode_from(lines, i_line, batches) ==
    IF i_line > Len(lines) THEN Parsed(batches)
    ELSE IF lines[i_line].kind = "header"
         THEN LET b == read_batch(lines, i_line)
              IN  IF b.some THEN decode_from(lines, i_line + 1, Append(batches, b.val))
                  ELSE ParsePanic
         ELSE decode_from(lines, i_line + 1, batches)

decode_script(lines) == decode_from(lines, 1, <<>>)

LineOperations == {Delete(<<1>>), Put(<<255>>, ScriptValue)}

LineSample ==
    {HeaderLine(n) : n \in 0..MaxDeclared}
        \cup {OperationLine(j, op) : j \in 0..(MaxDeclared - 1), op \in LineOperations}
        \cup {OtherLine}

InitParse ==
    /\ pc = "decode"
    /\ script_lines \in BatchesUpTo(LineSample, MaxLines)
    /\ parsed = NotParsed
    /\ pos = 0
    /\ batch = <<>>
    /\ kv_state = EmptyMap
    /\ first_bytes = {}
    /\ store = EmptyMap
    /\ kv_state_read = EmptyMap
    /\ scan_todo = {}
    /\ diag = NoDiag
    /\ fault = NoFault
    /\ kv_before = EmptyMap
    /\ iv_prefix = <<>>
    /\ iv_key = <<>>
    /\ iv_result = NoInterval
    /\ IoAtRest

\* the decoding of the whole file, before the replay loop
DecodeScript ==
    /\ pc = "decode"
    /\ parsed' = decode_script(script_lines)
    /\ pc' = IF parsed'.ok THEN "loop" ELSE "parse_panic"
    /\ UNCHANGED <<pos, batch, kv_state, first_bytes, store, kv_state_read,
                   scan_todo, diag, fault, kv_before, iv_prefix, iv_key, iv_result,
                   script_lines>>
    /\ UNCHANGED io_vars

\* loop head: the next batch decoded from the file
BeginDecodedBatch ==
    /\ parsed.ok
    /\ pos < Len(parsed.batches)
    /\ BeginBatchFrom({parsed.batches[pos + 1]})

\* the loop has gone through every decoded batch
FinishDecoded ==
    /\ parsed.ok
    /\ pos = Len(parsed.batches)
    /\ Finish

NextParse ==
    DecodeScript \/ BeginDecodedBatch \/ WriteBatch \/ ScanBucket \/ Compare
        \/ FinishDecoded

SpecParse == InitParse /\ [][NextParse]_vars

(***************************************************************************)
(* The replay loop on batches as the Batch type allows them: a            *)
(* DeletePrefix may carry the empty prefix.                               *)
(***************************************************************************)
EngineBatches == BatchesUpTo(ScriptOperations \cup {DeletePrefix(<<>>)}, MaxOps)

BeginEngineBatch == pos < MaxBatches /\ BeginBatchFrom(EngineBatches)

NextEngine == BeginEngineBatch \/ WriteBatch \/ ScanBucket \/ Compare \/ Finish

SpecEngine == Init /\ [][NextEngine]_vars

(***************************************************************************)
(* The range scan and the range delete on their own: a table holding any  *)
(* of the sample keys and a non-empty prefix, then one call of            *)
(* find_key_values_by_prefix or one batch of a single DeletePrefix.       *)
(***************************************************************************)
InitRange ==
    /\ pc = "range_call"
    /\ store \in {[k \in D |-> ScriptValue] : D \in SUBSET SampleKeys}
    /\ kv_before = store
    /\ iv_prefix \in SampleKeys
    /\ iv_key = <<>>
    /\ iv_result = <<>>
    /\ pos = 0
    /\ batch = <<>>
    /\ kv_state = EmptyMap
    /\ first_bytes = {}
    /\ kv_state_read = EmptyMap
    /\ scan_todo = {}
    /\ diag = NoDiag
    /\ fault = NoFault
    /\ IoAtRest
    /\ ParseAtRest

CallFindKeyValues ==
    /\ pc = "range_call"
    /\ iv_result' = find_key_values_by_prefix(store, iv_prefix)
    /\ pc' = "scan_ret"
    /\ UNCHANGED <<pos, batch, kv_state, first_bytes, store, kv_state_read,
                   scan_todo, diag, fault, kv_before, iv_prefix, iv_key>>
    /\ UNCHANGED <<io_vars, parse_vars>>

CallRangeDelete ==
    /\ pc = "range_call"
    /\ store' = write_batch_internal(store, <<DeletePrefix(iv_prefix)>>)
    /\ pc' = "delete_ret"
    /\ UNCHANGED <<pos, batch, kv_state, first_bytes, kv_state_read,
                   scan_todo, diag, fault, kv_before, iv_prefix, iv_key, iv_result>>
    /\ UNCHANGED <<io_vars, parse_vars>>

NextRange == CallFindKeyValues \/ CallRangeDelete

SpecRange == InitRange /\ [][NextRange]_vars

(***************************************************************************)
(* Vocabulary of the properties.                                          *)
(***************************************************************************)
\* k begins with p
HasPrefix(k, p) == Len(p) <= Len(k) /\ SubSeq(k, 1, Len(p)) = p

AllMax(p) == \A i \in 1..Len(p) : p[i] = 255

\* p cut after its right-most byte below 255, that byte plus one
TruncInc(p) ==
    LET i == CHOOSE n \in 1..Len(p) :
                 p[n] # 255 /\ \A j \in (n + 1)..Len(p) : p[j] = 255
    IN  [j \in 1..i |-> IF j = i THEN p[j] + 1 ELSE p[j]]

(***************************************************************************)
(* C2: for a non-empty prefix P that is not all 0xFF, get_interval(P) is  *)
(* (Included(P), Excluded(Q)), Q being P cut at its right-most non-0xFF   *)
(* byte with that byte plus one; every string beginning with P is below   *)
(* Q, and every string above all strings beginning with P is at least Q.  *)
(***************************************************************************)
C2_PrefixRangeCorrect ==
    (pc = "iv_ret" /\ iv_prefix # <<>> /\ ~AllMax(iv_prefix)) =>
        LET Q == TruncInc(iv_prefix)
        IN  /\ iv_result = <<Included(iv_prefix), Excluded(Q)>>
            /\ \A x \in PrefixInputs : HasPrefix(x, iv_prefix) => LexLess(x, Q)
            /\ (\A x \in PrefixInputs : HasPrefix(x, iv_prefix) => LexLess(x, iv_key))
                   => LexLeq(Q, iv_key)

C2_Witness ==
    /\ pc = "iv_ret"
    /\ iv_prefix = <<1, 255>>
    /\ iv_result = <<Included(<<1, 255>>), Excluded(<<2>>)>>
    /\ iv_key = <<254>>

(***************************************************************************)
(* C3: membership law.  For every prefix P (empty and all-0xFF included)  *)
(* and every key K, K is in get_interval(P) iff K begins with P.          *)
(***************************************************************************)
C3_MembershipLaw ==
    pc = "iv_ret" => (InRange(iv_key, iv_result) <=> HasPrefix(iv_key, iv_prefix))

C3_Witness ==
    /\ pc = "iv_ret"
    /\ iv_prefix = <<255>>
    /\ iv_key = <<255, 0>>
    /\ InRange(iv_key, iv_result)

(***************************************************************************)
(* C4: the upper bound of get_interval(P) is Unbounded iff P is empty or  *)
(* all 0xFF; the lower bound is always Included(P).                       *)
(***************************************************************************)
C4_UnboundedIffAllMax ==
    pc = "iv_ret" =>
        /\ (iv_result[2] = Unbounded <=> AllMax(iv_prefix))
        /\ iv_result[1] = Included(iv_prefix)

C4_Witness ==
    /\ pc = "iv_ret"
    /\ iv_prefix = <<255, 255>>
    /\ iv_result = <<Included(<<255, 255>>), Unbounded>>


(***************************************************************************)
(* C5: DeletePrefix completeness.  Right after update_via_batch has       *)
(* applied DeletePrefix{P} (P is the last operation of the batch), no key *)
(* beginning with P is in the map, however many there were, and also when *)
(* the range of P has no upper bound.                                     *)
(***************************************************************************)
LastOp(ops) == ops[Len(ops)]

C5_DeletePrefixComplete ==
    (pc = "uvb_ret" /\ Len(batch) > 0 /\ LastOp(batch).type = "DeletePrefix") =>
        \A k \in DOMAIN kv_state : ~HasPrefix(k, LastOp(batch).key)

C5_Witness ==
    /\ pc = "uvb_ret"
    /\ DOMAIN kv_before = {<<255>>}
    /\ batch = <<Put(<<255, 255>>, <<1>>), Put(<<1>>, <<1>>), DeletePrefix(<<255>>)>>
    /\ DOMAIN kv_state = {<<1>>}

(***************************************************************************)
(* C6: within one batch DeletePrefix{P} acts on the map as the earlier    *)
(* operations of the batch left it: a key beginning with P that was Put   *)
(* earlier in the batch (and not Put again later) is absent after the     *)
(* batch, and a key beginning with P that is Put later in the batch (and  *)
(* not touched after that) is present with the value put.                 *)
(***************************************************************************)
Affects(op, k) ==
    \/ op.type \in {"Put", "Delete"} /\ op.key = k
    \/ op.type = "DeletePrefix" /\ HasPrefix(k, op.key)

C6_DeletePrefixSeesCurrentState ==
    pc = "uvb_ret" =>
        \A i \in 1..Len(batch), j \in 1..Len(batch) :
            (/\ batch[i].type = "Put"
             /\ batch[j].type = "DeletePrefix"
             /\ HasPrefix(batch[i].key, batch[j].key)) =>
                /\ (/\ i < j
                    /\ \A n \in (j + 1)..Len(batch) :
                           ~(batch[n].type = "Put" /\ batch[n].key = batch[i].key))
                       => batch[i].key \notin DOMAIN kv_state
                /\ (/\ j < i
                    /\ \A n \in (i + 1)..Len(batch) : ~Affects(batch[n], batch[i].key))
                       => /\ batch[i].key \in DOMAIN kv_state
                          /\ kv_state[batch[i].key] = batch[i].value

C6_Witness ==
    /\ pc = "uvb_ret"
    /\ kv_before = EmptyMap
    /\ batch = <<Put(<<1>>, <<1>>), DeletePrefix(<<1>>), Put(<<1, 255>>, <<2>>)>>
    /\ DOMAIN kv_state = {<<1, 255>>}

(***************************************************************************)
(* C7: batch order sensitivity.  After update_via_batch, every key that   *)
(* some operation of the batch affects is in the state its last affecting *)
(* operation gives it: Put{k,v} leaves k mapped to v, Delete{k} or a      *)
(* covering DeletePrefix leaves k absent.                                 *)
(***************************************************************************)
LastAffecting(ops, k) ==
    LET S == {i \in 1..Len(ops) : Affects(ops[i], k)}
    IN  IF S = {} THEN 0 ELSE CHOOSE i \in S : \A n \in S : n <= i

C7_LastOperationWins ==
    pc = "uvb_ret" =>
        \A k \in CallKeys :
            LET i == LastAffecting(batch, k)
            IN  i > 0 =>
                    IF batch[i].type = "Put"
                    THEN k \in DOMAIN kv_state /\ kv_state[k] = batch[i].value
                    ELSE k \notin DOMAIN kv_state

C7_Witness ==
    /\ pc = "uvb_ret"
    /\ batch = <<Put(<<1>>, <<1>>), Delete(<<1>>), Put(<<1>>, <<2>>)>>
    /\ <<1>> \in DOMAIN kv_state
    /\ kv_state[<<1>>] = <<2>>

(***************************************************************************)
(* C8: idempotence of Delete.  Delete{k} on a map without k leaves the    *)
(* whole map as it was, and a batch ending in Delete{k}, Delete{k} gives  *)
(* the map the batch without its last Delete gives.                       *)
(***************************************************************************)
C8_DeleteIdempotent ==
    pc = "uvb_ret" =>
        /\ \A k \in CallKeys :
               (batch = <<Delete(k)>> /\ k \notin DOMAIN kv_before) => kv_state = kv_before
        /\ (/\ Len(batch) >= 2
            /\ LastOp(batch).type = "Delete"
            /\ batch[Len(batch) - 1] = LastOp(batch))
               => kv_state = update_via_batch(kv_before, SubSeq(batch, 1, Len(batch) - 1))

C8_Witness ==
    /\ pc = "uvb_ret"
    /\ DOMAIN kv_before = {<<1, 255>>}
    /\ batch = <<Put(<<1>>, <<1>>), Delete(<<1>>), Delete(<<1>>)>>
    /\ kv_state = kv_before

(***************************************************************************)
(* C1: replayed from an empty table on a store that applies each batch    *)
(* in order, the snapshot assembled from the scans equals the map when    *)
(* main compares them, after every batch; no inconsistency is reported.   *)
(***************************************************************************)
C1_SnapshotEqualsModel ==
    /\ (pc = "scan" /\ scan_todo = {}) => kv_state_read = kv_state
    /\ pc # "panic"

C1_Witness ==
    /\ pc = "scan"
    /\ scan_todo = {}
    /\ pos = 1
    /\ batch = <<DeletePrefix(<<255>>), Put(<<255, 255>>, ScriptValue)>>
    /\ first_bytes = {1, 255}
    /\ DOMAIN kv_state_read = {<<1, 255>>, <<255, 255>>}

(***************************************************************************)
(* C9 as stated: once a row has been written into the table from outside, *)
(* the batch processed next does not pass its verification, and the       *)
(* diagnostics printed on the failure show a non-zero size for one of the *)
(* three sets.                                                            *)
(***************************************************************************)
SetSizes(d) == d.key_puts + d.key_deletes + d.key_prefix_deletes

C9_Original ==
    /\ fault.injected => pos <= fault.at
    /\ (fault.injected /\ pc = "panic") => SetSizes(diag) > 0

(***************************************************************************)
(* C9 amended: a row written from outside between two batches is caught   *)
(* by the verification of the next batch whenever, after that batch, the  *)
(* first byte of its key is in the running first-byte set and the table   *)
(* and the map still differ at that key; the diagnostics printed on a     *)
(* failure show a non-zero size for one of the three sets whenever the    *)
(* failing batch has an operation.                                        *)
(***************************************************************************)
RowAt(m, k) == IF k \in DOMAIN m THEN Some(m[k]) ELSE None

C9_FaultInScannedBucketDetected ==
    /\ (fault.injected /\ pc = "loop" /\ pos = fault.at + 1) =>
           \/ fault.key[1] \notin first_bytes
           \/ RowAt(store, fault.key) = RowAt(kv_state, fault.key)
    /\ (pc = "panic" /\ batch # <<>>) => (diag.printed /\ SetSizes(diag) > 0)

C9_Witness ==
    /\ pc = "panic"
    /\ fault.injected
    /\ fault.key = <<1, 255>>
    /\ pos = fault.at
    /\ batch = <<Delete(<<1>>), DeletePrefix(<<255>>)>>
    /\ diag.key_prefix_deletes = 1
    /\ <<1, 255>> \in DOMAIN kv_state_read
    /\ <<1, 255>> \notin DOMAIN kv_state

(***************************************************************************)
(* C10: the inconsistency is absorbing.  When the snapshot and the map    *)
(* differ at the comparison main stops there, and from then on the map,   *)
(* the first-byte set and the table do not change and no batch is begun.  *)
(***************************************************************************)
C10_InconsistencyAbsorbing ==
    [][/\ (pc = "scan" /\ scan_todo = {} /\ kv_state_read # kv_state) => pc' = "panic"
       /\ (pc = "panic" \/ diag.printed) =>
              /\ pc' = pc
              /\ UNCHANGED <<pos, batch, kv_state, first_bytes, store>>]_vars

C10_Witness ==
    /\ pc = "panic"
    /\ pos = 1
    /\ diag.printed
    /\ kv_state_read # kv_state

(***************************************************************************)
(* C11: a failed request to the table ends the run.  Once a batch write   *)
(* or a range scan has returned an error, main is in its panic and sends  *)
(* no further write or scan (the failed one is not sent again), and       *)
(* nothing of its state changes.                                          *)
(***************************************************************************)
C11_FailedRequestIsFatal ==
    [][store_failed =>
          /\ pc = "store_error"
          /\ pc' = pc
          /\ n_writes' = n_writes
          /\ n_scans' = n_scans
          /\ UNCHANGED <<pos, kv_state, first_bytes, store, kv_state_read>>]_vars

C11_Witness ==
    /\ pc = "store_error"
    /\ store_failed
    /\ pos = 1
    /\ n_writes = 2
    /\ n_scans = 2
    /\ scan_todo = {255}

(***************************************************************************)
(* C12: strictly sequential replay.  A scan is sent only once the write   *)
(* of the current batch has completed; a write is sent only for the batch *)
(* whose index is the number of batches verified so far, so one write per *)
(* batch, in script order; and a batch counts as verified only once all   *)
(* its scans are done and the snapshot equals the map.                    *)
(***************************************************************************)
C12_StrictlySequential ==
    [][/\ n_scans' > n_scans =>
             (pc = "scan" /\ n_writes = pos + 1 /\ ~store_failed)
       /\ n_writes' # n_writes =>
             (n_writes' = n_writes + 1 /\ n_writes = pos /\ n_scans = 0
                 /\ ~store_failed)
       /\ pos' # pos =>
             /\ pos' = pos + 1
             /\ n_writes = pos + 1
             /\ n_scans = Cardinality(first_bytes)
             /\ scan_todo = {}
             /\ kv_state_read = kv_state]_vars

C12_Witness ==
    /\ pc = "scan"
    /\ pos = 1
    /\ n_writes = 2
    /\ n_scans = 2
    /\ scan_todo = {}
    /\ first_bytes = {1, 255}
    /\ kv_state_read = kv_state

(***************************************************************************)
(* C13: the diagnostics come after the failure decision.  detect_collision *)
(* prints only at a comparison that found the snapshot and the map        *)
(* different; what it prints are the sizes of the key sets of the         *)
(* offending batch; the map, the first-byte set and the table are left as *)
(* they were; and the run is in its panic after it.                       *)
(***************************************************************************)
KeysOfType(ops, t) == {ops[i].key : i \in {n \in 1..Len(ops) : ops[n].type = t}}

C13_DiagnosticsDownstream ==
    [][diag' # diag =>
          /\ pc = "scan" /\ scan_todo = {}
          /\ kv_state_read # kv_state
          /\ pc' = "panic"
          /\ diag'.printed
          /\ diag'.key_puts = Cardinality(KeysOfType(batch, "Put"))
          /\ diag'.key_deletes = Cardinality(KeysOfType(batch, "Delete"))
          /\ diag'.key_prefix_deletes = Cardinality(KeysOfType(batch, "DeletePrefix"))
          /\ diag'.intersection =
                Cardinality(KeysOfType(batch, "Put") \cap KeysOfType(batch, "Delete"))
          /\ UNCHANGED <<pos, batch, kv_state, first_bytes, store>>]_vars

C13_Witness ==
    /\ pc = "panic"
    /\ diag.printed
    /\ batch = <<Put(<<1>>, ScriptValue), Delete(<<1>>)>>
    /\ diag.intersection = 1
    /\ fault.injected

(***************************************************************************)
(* C14 as stated: whenever the count a batch header declares differs from *)
(* the number of operation lines that follow it, the decoding is a fatal  *)
(* error and no batch is sent to the table.                               *)
(***************************************************************************)
RECURSIVE FollowingOperationLines(_, _)
FollowingOperationLines(lines, i) ==
    IF i + 1 <= Len(lines) /\ lines[i + 1].kind = "operation"
    THEN 1 + FollowingOperationLines(lines, i + 1)
    ELSE 0

WrongDeclaredCount(lines) ==
    \E i \in 1..Len(lines) :
        /\ lines[i].kind = "header"
        /\ lines[i].n # FollowingOperationLines(lines, i)

C14_WrongCountIsFatal ==
    (parsed.done /\ WrongDeclaredCount(script_lines)) =>
        (~parsed.ok /\ pc = "parse_panic" /\ n_writes = 0)

(***************************************************************************)
(* C15: the running first-byte set is empty before the first batch, each  *)
(* batch adds exactly the first bytes of the keys and prefixes of all its *)
(* operations when the loop takes it up, and nothing else changes the     *)
(* set: at every verification it is the set of first bytes of all         *)
(* operations so far, and no byte ever leaves it.                         *)
(***************************************************************************)
FirstBytesOf(ops) == {ops[i].key[1] : i \in 1..Len(ops)}

C15_FirstBytesExact ==
    /\ first_bytes = {}
    /\ [][/\ first_bytes \subseteq first_bytes'
          /\ IF pc = "loop" /\ pc' = "write"
             THEN first_bytes' = first_bytes \cup FirstBytesOf(batch')
             ELSE first_bytes' = first_bytes
          /\ pc' = "scan" => FirstBytesOf(batch') \subseteq first_bytes']_vars

C15_Witness ==
    /\ pc = "scan"
    /\ pos = 1
    /\ batch = <<DeletePrefix(<<255, 255>>), Delete(<<255>>)>>
    /\ first_bytes = {1, 255}

(***************************************************************************)
(* C16: untouched buckets do not diverge.  Replayed from an empty table,  *)
(* the table never holds a key whose first byte is outside the running    *)
(* first-byte set, and the whole table equals the map at every            *)
(* comparison and between batches.                                        *)
(***************************************************************************)
C16_UntouchedBucketsEmpty ==
    /\ \A k \in DOMAIN store : k[1] \in first_bytes
    /\ ((pc = "scan" /\ scan_todo = {}) \/ pc \in {"loop", "done"}) => store = kv_state

C16_Witness ==
    /\ pc = "scan"
    /\ scan_todo = {}
    /\ pos = 1
    /\ first_bytes = {255}
    /\ batch = <<DeletePrefix(<<255, 255>>)>>
    /\ DOMAIN store = {<<255>>}

(***************************************************************************)
(* C17: for a non-empty prefix P of 0xFF bytes only, the range scan       *)
(* returns exactly the rows whose key begins with P (each key without its *)
(* first len(P) bytes), and the range delete leaves every row whose key   *)
(* does not begin with P in the table: the lower bound k >= P is applied. *)
(***************************************************************************)
RowsWithPrefix(rows, p) == {<<k, rows[k]>> : k \in {x \in DOMAIN rows : HasPrefix(x, p)}}

C17_LowerBoundKept ==
    /\ (pc = "scan_ret" /\ AllMax(iv_prefix)) =>
          /\ {<<iv_prefix \o iv_result[i][1], iv_result[i][2]>> : i \in 1..Len(iv_result)}
                = RowsWithPrefix(store, iv_prefix)
          /\ Len(iv_result) = Cardinality(RowsWithPrefix(store, iv_prefix))
    /\ (pc = "delete_ret" /\ AllMax(iv_prefix)) =>
          \A k \in DOMAIN kv_before :
              ~HasPrefix(k, iv_prefix) => (k \in DOMAIN store /\ store[k] = kv_before[k])

C17_Witness ==
    /\ pc = "delete_ret"
    /\ iv_prefix = <<255, 255>>
    /\ DOMAIN kv_before = SampleKeys
    /\ DOMAIN store = {<<1>>, <<1, 255>>, <<255>>}

(***************************************************************************)
(* C18 as stated: a batch with DeletePrefix of the empty prefix is        *)
(* processed up to its verification, and when that DeletePrefix is the    *)
(* last operation of the batch the map and the table are empty there.     *)
(***************************************************************************)
HasEmptyDeletePrefix(ops) == \E i \in 1..Len(ops) : ops[i] = DeletePrefix(<<>>)

C18_EmptyPrefixDeletesAll ==
    HasEmptyDeletePrefix(batch) =>
        /\ pc \in {"write", "scan"}
        /\ (pc = "scan" /\ LastOp(batch) = DeletePrefix(<<>>)) =>
              (kv_state = EmptyMap /\ store = EmptyMap)

(***************************************************************************)
(* C19: after every batch the loop has applied, every key of the map has  *)
(* its first byte in the running first-byte set.                          *)
(***************************************************************************)
C19_ModelKeysInScannedBuckets ==
    \A k \in DOMAIN kv_state : k[1] \in first_bytes

C19_Witness ==
    /\ pc = "scan"
    /\ pos = 1
    /\ batch = <<Delete(<<1>>)>>
    /\ DOMAIN kv_state = {<<1, 255>>, <<255>>}
    /\ first_bytes = {1, 255}

(***************************************************************************)
(* C20: frame of DeletePrefix.  After a batch whose last operation is     *)
(* DeletePrefix{P}, every key that does not begin with P is as the        *)
(* operations before left it: mapped to the value of its last Put, absent *)
(* if a Delete or DeletePrefix removed it last, and as in the map before  *)
(* the batch if no earlier operation affects it.                          *)
(***************************************************************************)
C20_DeletePrefixFrame ==
    (pc = "uvb_ret" /\ Len(batch) > 0 /\ LastOp(batch).type = "DeletePrefix") =>
        \A k \in CallKeys :
            ~HasPrefix(k, LastOp(batch).key) =>
                LET earlier == SubSeq(batch, 1, Len(batch) - 1)
                    i == LastAffecting(earlier, k)
                IN  RowAt(kv_state, k) =
                        IF i = 0 THEN RowAt(kv_before, k)
                        ELSE IF earlier[i].type = "Put" THEN Some(earlier[i].value)
                        ELSE None

C20_Witness ==
    /\ pc = "uvb_ret"
    /\ DOMAIN kv_before = {<<1>>}
    /\ batch = <<Put(<<255>>, <<1>>), Put(<<1, 255>>, <<2>>), DeletePrefix(<<1, 255>>)>>
    /\ DOMAIN kv_state = {<<1>>, <<255>>}
    /\ kv_state[<<1>>] = OldValue
====
